---- MODULE Spec2Model ----
(***************************************************************************)
(* State-machine model of the SOCRATIX session server (server/server.js).  *)
(* The module-level object socraticState is the variable socraticState, a  *)
(* record with the fields the handlers read and write.  Every async route  *)
(* handler is split at its single await of the OpenAI client: the          *)
(* synchronous prefix is one action, and the continuation (resolve) and    *)
(* the catch block (reject) are two more.  Handlers suspended at the await *)
(* are kept in pending together with the locals they captured.  The HTTP   *)
(* reply of the handler that finished last is kept in lastResponse.        *)
(* Date.now() stamps and the ids derived from them are left out.           *)
(***************************************************************************)
EXTENDS Integers, Sequences, FiniteSets, Bags, TLC

VARIABLES socraticState, pending, lastResponse

vars == <<socraticState, pending, lastResponse>>

(***************************************************************************)
(* Bounds of the model.                                                    *)
(***************************************************************************)
MaxHistory == 2        \* Spec: entries of conversationHistory
MaxPending == 1        \* Spec: handlers suspended at an await
MaxAnswers == 2        \* SpecRespond: answers per session
MaxOverlap == 2        \* SpecRespond: respond handlers suspended at the await
MaxSeqAnswers == 3     \* SpecSeq: answers per session
MaxDeepAnswers == 7    \* SpecDeep: answers per session
MaxPhaseAnswers == 7    \* SpecPhase: answers per session
MaxPathStep == 7        \* SpecPath: value of currentPathStep
MaxPathAnswers == 1     \* SpecPath: answers per session
MaxQueryAnswers == 3    \* SpecQueries: answers per session
MaxTextAnswers == 3     \* SpecText: answers per session
MaxLongAnswers == 11   \* SpecLong: answers per session

(***************************************************************************)
(* JavaScript values and string helpers.                                   *)
(***************************************************************************)
Null == "<null>"
Undefined == "undefined"

\* !v for the values a request body or the topic field can hold
Falsy(v) == v = Null \/ v = ""

Min(a, b) == IF a < b THEN a ELSE b
Max(a, b) == IF a > b THEN a ELSE b

\* String.prototype.includes
includes(s, sub) ==
    \/ sub = ""
    \/ \E i \in 1..(Len(s) - Len(sub) + 1) : SubSeq(s, i, i + Len(sub) - 1) = sub

UpperChars == "ABCDEFGHIJKLMNOPQRSTUVWXYZ"
LowerChars == "abcdefghijklmnopqrstuvwxyz"

UpperSet == {SubSeq(UpperChars, i, i) : i \in 1..Len(UpperChars)}

LowerMap ==
    [c \in UpperSet |->
        LET i == CHOOSE j \in 1..Len(UpperChars) : SubSeq(UpperChars, j, j) = c
        IN  SubSeq(LowerChars, i, i)]

LowerChar(c) == IF c \in UpperSet THEN LowerMap[c] ELSE c

RECURSIVE toLowerCase(_)
toLowerCase(s) ==
    IF s = "" THEN ""
    ELSE LowerChar(SubSeq(s, 1, 1)) \o toLowerCase(SubSeq(s, 2, Len(s)))

IsWhitespace(c) == c = " "

RECURSIVE SkipWhitespace(_, _)
SkipWhitespace(s, i) ==
    IF i <= Len(s) /\ IsWhitespace(SubSeq(s, i, i)) THEN SkipWhitespace(s, i + 1) ELSE i

\* s.split(/\s+/): a leading or trailing run of whitespace yields an empty token
RECURSIVE SplitFrom(_, _, _)
SplitFrom(s, i, cur) ==
    IF i > Len(s) THEN <<cur>>
    ELSE LET c == SubSeq(s, i, i)
         IN  IF IsWhitespace(c)
             THEN <<cur>> \o SplitFrom(s, SkipWhitespace(s, i), "")
             ELSE SplitFrom(s, i + 1, cur \o c)

splitWhitespace(s) == SplitFrom(s, 1, "")

\* Array.prototype.slice(-n)
SliceLast(seq, n) == SubSeq(seq, Max(1, Len(seq) - n + 1), Len(seq))

\* mutant: node ids are numbered from 0
NodeIdZeroBased(n) == "node-" \o ToString(n - 1)

NodeId(n) == "node-" \o ToString(n)

(***************************************************************************)
(* Constant tables of server.js.                                           *)
(***************************************************************************)
SOLUTION_PATHS_default ==
    <<"Foundation", "Building Blocks", "Application", "Edge Cases", "Synthesis", "Mastery">>

ERROR_TYPES == [CALCULATION |-> "calculation", LOGIC |-> "logic", FUNDAMENTAL |-> "fundamental"]

SCAFFOLD_LEVELS == <<"nudge", "hint", "partial_explanation">>   \* keys 0, 1, 2

\* SCAFFOLD_LEVELS[level].name
ScaffoldLevelName(level) == SCAFFOLD_LEVELS[level + 1]

questionTypes ==
    <<"feynman", "edgeCase", "assumption", "doubleDown", "counterExemplar", "reflectiveToss">>

(***************************************************************************)
(* The session record.                                                     *)
(***************************************************************************)
\* the object literal assigned by initializeSession
FreshSession(topic) ==
    [ topic                 |-> topic,
      userAnswers           |-> <<>>,
      nodes                 |-> <<>>,
      connections           |-> <<>>,
      conversationHistory   |-> <<>>,
      questionDepth         |-> 0,
      currentQuestion       |-> Null,
      solutionPath          |-> SOLUTION_PATHS_default,
      currentPathStep       |-> 0,
      pathGatekeepers       |-> [key \in {} |-> <<>>],
      misconceptions        |-> <<>>,
      calibrationQuestions  |-> <<>>,
      baselineKnowledgeLevel |-> Null,
      currentScaffoldLevel  |-> 0,
      assertions            |-> <<>>,
      provenNodes           |-> {},
      consistencyScore      |-> 0,
      contradictions        |-> <<>>,
      synthesisMemo         |-> Null,
      questionSequence      |-> <<>>,
      sessionPhase          |-> "calibration",
      knowledgeGapMap       |-> <<>> ]      \* null: <<>>, a map m: <<m>>

initializeSession(topic) == FreshSession(topic)

\* the module-level initial value of socraticState: as a fresh session with
\* topic null, except that solutionPath is the empty array
InitialState == [FreshSession(Null) EXCEPT !.solutionPath = <<>>]

\* mutant: every new node is connected to the first node
addToThoughtProcessStar(s, answer, questionNumber) ==
    LET node  == [id |-> NodeId(questionNumber), text |-> answer, depth |-> s.questionDepth]
        nodes == Append(s.nodes, node)
    IN  [s EXCEPT !.nodes = nodes,
                  !.connections =
                      IF Len(nodes) > 1
                      THEN Append(@, [from |-> nodes[1].id, to |-> node.id])
                      ELSE @]

addToThoughtProcess(s, answer, questionNumber) ==
    LET node  == [id |-> NodeId(questionNumber), text |-> answer, depth |-> s.questionDepth]
        nodes == Append(s.nodes, node)
    IN  [s EXCEPT !.nodes = nodes,
                  !.connections =
                      IF Len(nodes) > 1
                      THEN Append(@, [from |-> nodes[Len(nodes) - 1].id, to |-> node.id])
                      ELSE @]

addToConversationHistory(s, role, content) ==
    [s EXCEPT !.conversationHistory = Append(@, [role |-> role, content |-> content])]

(***************************************************************************)
(* Knowledge roadmap, error taxonomy, calibration.                         *)
(***************************************************************************)
\* `step-${currentStep}`
StepKey(currentStep) == "step-" \o ToString(currentStep)

\* pathGatekeepers maps step keys to lists of conditions; the server itself
\* leaves it {} (no code adds a key to it)
canProgressToNextStep(s, currentStep) ==
    IF currentStep = 0 THEN TRUE
    ELSE IF StepKey(currentStep) \notin DOMAIN s.pathGatekeepers THEN TRUE
    ELSE \A i \in DOMAIN s.pathGatekeepers[StepKey(currentStep)] :
             s.pathGatekeepers[StepKey(currentStep)][i].isMet

\* a step of the path, undefined past its end
StepAt(s, index) ==
    IF index + 1 \in DOMAIN s.solutionPath THEN s.solutionPath[index + 1] ELSE Undefined

\* the object progressToNextStep returns
ProgressResult(s) ==
    IF canProgressToNextStep(s, s.currentPathStep + 1)
    THEN [success |-> TRUE, nextStep |-> StepAt(s, s.currentPathStep + 1), reason |-> Undefined]
    ELSE [success |-> FALSE, nextStep |-> Undefined, reason |-> "Prerequisites not met"]

\* mutant: the step is advanced without asking the gatekeepers
progressToNextStepUngated(s) ==
    [s EXCEPT !.currentPathStep = @ + 1, !.sessionPhase = "progressive"]

progressToNextStep(s) ==
    IF canProgressToNextStep(s, s.currentPathStep + 1)
    THEN [s EXCEPT !.currentPathStep = @ + 1, !.sessionPhase = "progressive"]
    ELSE s

\* mutant: the contrast rule is tried before the self-correction rule
categorizeErrorLogicFirst(answer) ==
    IF includes(answer, "but") /\ includes(answer, "instead")
    THEN ERROR_TYPES.LOGIC
    ELSE IF includes(answer, "forgot") \/ includes(answer, "miscalculated")
         THEN ERROR_TYPES.CALCULATION
         ELSE ERROR_TYPES.FUNDAMENTAL

categorizeError(answer) ==
    IF includes(answer, "forgot") \/ includes(answer, "miscalculated")
    THEN ERROR_TYPES.CALCULATION
    ELSE IF includes(answer, "but") /\ includes(answer, "instead")
         THEN ERROR_TYPES.LOGIC
         ELSE ERROR_TYPES.FUNDAMENTAL

\* the context field of a misconception is the conversationHistory array itself
\* (a reference, not a copy) and is not stored a second time
detectMisconception(s, userAnswer) ==
    [s EXCEPT !.misconceptions =
        Append(@, [answer      |-> userAnswer,
                   type        |-> categorizeError(userAnswer),
                   severity    |-> "unknown",
                   detected_at |-> s.questionDepth,
                   resolved    |-> FALSE])]

\* the object dynamicAdaptation returns
AdaptationResult(s, misconceptionType) ==
    IF misconceptionType = ERROR_TYPES.FUNDAMENTAL
    THEN [action     |-> "pivot_to_foundation",
          targetStep |-> StepAt(s, Max(0, s.currentPathStep - 2)),
          message    |-> "Let's solidify the foundation before moving forward."]
    ELSE [action     |-> "continue",
          targetStep |-> Undefined,
          message    |-> "Let's probe this further."]

\* mutant: every classification moves the step back, and by 2 without a floor
dynamicAdaptationAlways(s, misconceptionType) ==
    [s EXCEPT !.currentPathStep = @ - 2]

dynamicAdaptation(s, misconceptionType) ==
    IF misconceptionType = ERROR_TYPES.FUNDAMENTAL
    THEN [s EXCEPT !.currentPathStep = Max(0, @ - 2)]
    ELSE s

generateCalibrationQuestions(s, topic) ==
    [s EXCEPT !.calibrationQuestions =
        <<"What's your first impression when you hear about " \o topic \o "?",
          "Have you worked with " \o topic \o " before? In what context?">>]

RECURSIVE Complexity(_)
Complexity(calibrationResponses) ==
    IF calibrationResponses = <<>> THEN 0
    ELSE LET resp == calibrationResponses[Len(calibrationResponses)]
             rest == SubSeq(calibrationResponses, 1, Len(calibrationResponses) - 1)
         IN  Complexity(rest) + (IF Len(resp) < 20 THEN 1 ELSE IF Len(resp) < 100 THEN 2 ELSE 3)

BaselineLevel(calibrationResponses) ==
    LET complexity == Complexity(calibrationResponses)
    IN  IF complexity <= 2 THEN "beginner"
        ELSE IF complexity <= 4 THEN "intermediate" ELSE "advanced"

assessBaselineKnowledge(s, calibrationResponses) ==
    [s EXCEPT !.baselineKnowledgeLevel = BaselineLevel(calibrationResponses)]

(***************************************************************************)
(* Scaffolding, assertions, contradictions, consistency, diversity.        *)
(***************************************************************************)
ScaffoldCeiling == 2

\* the returned object; levelName is undefined at the ceiling
ScaffoldInfo(s) ==
    IF s.currentScaffoldLevel < ScaffoldCeiling
    THEN [level     |-> s.currentScaffoldLevel + 1,
          levelName |-> ScaffoldLevelName(s.currentScaffoldLevel + 1),
          message   |-> "Providing " \o ScaffoldLevelName(s.currentScaffoldLevel + 1)
                            \o " level support..."]
    ELSE [level     |-> -1,
          levelName |-> Undefined,
          message   |-> "Maximum scaffolding level reached. Please share your thinking."]

\* mutant: the level is incremented without a ceiling
requestScaffoldNoCeiling(s) == [s EXCEPT !.currentScaffoldLevel = @ + 1]

requestScaffold(s) ==
    IF s.currentScaffoldLevel < ScaffoldCeiling
    THEN [s EXCEPT !.currentScaffoldLevel = @ + 1]
    ELSE s

AssertionThreshold == 70

\* mutant: the threshold is off by one
recordAssertionOffByOne(s, statement, nodeId, confidence) ==
    IF confidence > AssertionThreshold + 1
    THEN [s EXCEPT !.assertions =
                       Append(@, [statement    |-> statement,
                                  nodeId       |-> nodeId,
                                  confidence   |-> confidence,
                                  foundational |-> (s.currentPathStep <= 1)]),
                   !.provenNodes = @ \cup {nodeId}]
    ELSE s

\* mutant: recording an assertion also advances the path
recordAssertionAdvancing(s, statement, nodeId, confidence) ==
    IF confidence > AssertionThreshold
    THEN progressToNextStep(
             [s EXCEPT !.assertions =
                           Append(@, [statement    |-> statement,
                                      nodeId       |-> nodeId,
                                      confidence   |-> confidence,
                                      foundational |-> (s.currentPathStep <= 1)]),
                       !.provenNodes = @ \cup {nodeId}])
    ELSE s

\* mutant: a new assertion replaces the ledger instead of extending it
recordAssertionLatestOnly(s, statement, nodeId, confidence) ==
    IF confidence > AssertionThreshold
    THEN [s EXCEPT !.assertions =
                       <<[statement    |-> statement,
                          nodeId       |-> nodeId,
                          confidence   |-> confidence,
                          foundational |-> (s.currentPathStep <= 1)]>>,
                   !.provenNodes = @ \cup {nodeId}]
    ELSE s

recordAssertion(s, statement, nodeId, confidence) ==
    IF confidence > AssertionThreshold
    THEN [s EXCEPT !.assertions =
                       Append(@, [statement    |-> statement,
                                  nodeId       |-> nodeId,
                                  confidence   |-> confidence,
                                  foundational |-> (s.currentPathStep <= 1)]),
                   !.provenNodes = @ \cup {nodeId}]
    ELSE s

hasNegation(newStatement) ==
    \/ includes(toLowerCase(newStatement), "not")
    \/ includes(toLowerCase(newStatement), "no")
    \/ includes(toLowerCase(newStatement), "never")

\* the filter callback of detectContradiction
Conflicts(newStatement, prev) ==
    /\ hasNegation(newStatement)
    /\ ~includes(toLowerCase(prev), "not")
    /\ LET words == splitWhitespace(toLowerCase(prev))
       IN  \E k \in 1..Len(words) : includes(toLowerCase(newStatement), words[k])

\* the answer texts a request can carry
AnswerTexts == {"cats purr", "cats do not purr"}
\* further answer texts, used where the wording of the answers matters
DetectorTexts == {"cats never nap", "cats never purr", "cat naps"}
ClassifierTexts == {"I forgot but did it instead", "but this instead", "I miscalculated"}
StatementTexts == AnswerTexts \cup DetectorTexts \cup ClassifierTexts

\* Conflicts, evaluated once for each pair of texts
ConflictsOf ==
    [newStatement \in StatementTexts, prev \in StatementTexts |-> Conflicts(newStatement, prev)]

ConflictingStatements(newStatement, previousStatements) ==
    LET IsConflict(prev) == ConflictsOf[newStatement, prev]
    IN  SelectSeq(previousStatements, IsConflict)

\* the boolean returned by detectContradiction
ContradictionFound(newStatement, previousStatements) ==
    Len(ConflictingStatements(newStatement, previousStatements)) > 0

\* mutant: the record is stamped with the number of prior statements
detectContradictionStampsPrior(s, newStatement, previousStatements) ==
    IF ContradictionFound(newStatement, previousStatements)
    THEN [s EXCEPT !.contradictions =
            Append(@, [new           |-> newStatement,
                       conflictsWith |-> ConflictingStatements(newStatement, previousStatements),
                       detected_at   |-> Len(previousStatements)])]
    ELSE s

detectContradiction(s, newStatement, previousStatements) ==
    IF ContradictionFound(newStatement, previousStatements)
    THEN [s EXCEPT !.contradictions =
            Append(@, [new           |-> newStatement,
                       conflictsWith |-> ConflictingStatements(newStatement, previousStatements),
                       detected_at   |-> s.questionDepth])]
    ELSE s

ScoreMax == 100
ScoreGain == 10
ScoreLoss == 5

\* mutant: the gain is not clamped at the maximum
updateConsistencyScoreUnclamped(s, resolvedContradiction) ==
    IF resolvedContradiction
    THEN [s EXCEPT !.consistencyScore = @ + ScoreGain]
    ELSE [s EXCEPT !.consistencyScore = Max(0, @ - ScoreLoss)]

\* mutant: the two branches are exchanged
updateConsistencyScoreInverted(s, resolvedContradiction) ==
    IF resolvedContradiction
    THEN [s EXCEPT !.consistencyScore = Max(0, @ - ScoreLoss)]
    ELSE [s EXCEPT !.consistencyScore = Min(ScoreMax, @ + ScoreGain)]

updateConsistencyScore(s, resolvedContradiction) ==
    IF resolvedContradiction
    THEN [s EXCEPT !.consistencyScore = Min(ScoreMax, @ + ScoreGain)]
    ELSE [s EXCEPT !.consistencyScore = Max(0, @ - ScoreLoss)]

DiversityWindow == 5
DiversityMinimum == 3

\* mutant: only the last three tags are inspected
LoopWarningLastThree(questionSequence) ==
    LET recentQuestions == SliceLast(questionSequence, 3)
        uniqueTypes == Cardinality({recentQuestions[i] : i \in 1..Len(recentQuestions)})
    IN  uniqueTypes = 1 /\ Len(recentQuestions) >= DiversityMinimum

\* the value returned by trackQuestionDiversity, on the sequence after the push
LoopWarning(questionSequence) ==
    LET recentQuestions == SliceLast(questionSequence, DiversityWindow)
        uniqueTypes == Cardinality({recentQuestions[i] : i \in 1..Len(recentQuestions)})
    IN  uniqueTypes = 1 /\ Len(recentQuestions) >= DiversityMinimum

\* mutant: a tag equal to the last one logged is not logged again
trackQuestionDiversityDedup(s, questionType) ==
    IF s.questionSequence # <<>> /\ s.questionSequence[Len(s.questionSequence)] = questionType
    THEN s
    ELSE [s EXCEPT !.questionSequence = Append(@, questionType)]

trackQuestionDiversity(s, questionType) ==
    [s EXCEPT !.questionSequence = Append(@, questionType)]

(***************************************************************************)
(* Synthesis and the knowledge-gap map.                                    *)
(***************************************************************************)
evaluateSynthesis(s, synthesisMemo) ==
    [s EXCEPT !.synthesisMemo = synthesisMemo, !.sessionPhase = "synthesis"]

GapMap(s) ==
    LET masteredSteps == s.currentPathStep
    IN  [idx \in 1..Len(s.solutionPath) |->
            [step       |-> s.solutionPath[idx],
             status     |-> IF idx - 1 < masteredSteps THEN "mastered"
                            ELSE IF idx - 1 = masteredSteps THEN "current" ELSE "locked",
             confidence |-> IF idx - 1 < masteredSteps THEN 100
                            ELSE IF idx - 1 = masteredSteps THEN s.consistencyScore ELSE 0]]

generateKnowledgeGapMap(s) == [s EXCEPT !.knowledgeGapMap = <<GapMap(s)>>]

(***************************************************************************)
(* Request inputs.                                                         *)
(***************************************************************************)
TopicInputs == {"", "gravity"}
AnswerInputs == {""} \cup AnswerTexts
Confidences == {39, 70, 71, 85, 86}
FewConfidences == {39, 86}
LedgerConfidences == {70, 71}
DefaultConfidence == 50      \* const { answer, confidence = 50 } = req.body
CalibrationInputs == {<<>>, <<"a little">>}
MemoInputs == {"", "cats purr when content"}
LLMReplies == {"Why?"}

\* the handlers suspended at their await form a bag: no order among them
Suspend(p) == pending (+) SetToBag({p})
Resume(p) == pending (-) SetToBag({p})

(***************************************************************************)
(* POST /api/session/init and POST /api/session/reset                      *)
(***************************************************************************)
SessionInitRejected(topic) ==
    /\ Falsy(topic)
    /\ lastResponse' = [op |-> "init", status |-> 400, error |-> "Topic is required"]
    /\ UNCHANGED <<socraticState, pending>>

\* mutant: init replaces the topic and the phase but keeps the rest of the session
SessionInitKeepsAnswers(topic) ==
    /\ ~Falsy(topic)
    /\ socraticState' =
         generateCalibrationQuestions(
             [socraticState EXCEPT !.topic = topic, !.sessionPhase = "calibration"], topic)
    /\ lastResponse' = [op |-> "init", status |-> 200, sessionPhase |-> "calibration"]
    /\ UNCHANGED pending

SessionInit(topic) ==
    /\ ~Falsy(topic)
    /\ socraticState' = generateCalibrationQuestions(initializeSession(topic), topic)
    /\ lastResponse' = [op |-> "init", status |-> 200, sessionPhase |-> "calibration"]
    /\ UNCHANGED pending

\* mutant: reset clears the topic and the answers but keeps the score and the ledgers
SessionResetKeepsLedgers ==
    /\ socraticState' =
         [initializeSession(Null) EXCEPT
            !.consistencyScore = socraticState.consistencyScore,
            !.assertions = socraticState.assertions,
            !.currentScaffoldLevel = socraticState.currentScaffoldLevel]
    /\ lastResponse' = [op |-> "reset", status |-> 200]
    /\ UNCHANGED pending

SessionReset ==
    /\ socraticState' = initializeSession(Null)
    /\ lastResponse' = [op |-> "reset", status |-> 200]
    /\ UNCHANGED pending

(***************************************************************************)
(* POST /api/question/respond                                              *)
(***************************************************************************)
\* mutant: past the last tag the selection wraps to the first
SelectedTypeWrapping(questionDepth) ==
    questionTypes[((questionDepth - 1) % Len(questionTypes)) + 1]

\* an index outside the array reads undefined
SelectedType(questionDepth) ==
    LET index == Min(questionDepth - 1, Len(questionTypes) - 1)
    IN  IF index >= 0 THEN questionTypes[index + 1] ELSE Undefined

AssertionDue(confidence) == confidence > 70

\* mutant: the depth test is >= 2
MisconceptionDueAtTwo(s, confidence) == confidence > 85 /\ s.questionDepth >= 2

MisconceptionDue(s, confidence) == confidence > 85 /\ s.questionDepth > 2

\* mutant: the confidence test is the wrong way round
ScaffoldDueInverted(s, confidence) == confidence > 40 /\ s.currentScaffoldLevel < 2

ScaffoldDue(s, confidence) == confidence < 40 /\ s.currentScaffoldLevel < 2

\* mutant: the answer is pushed but questionDepth is not incremented
RecordAnswerNoDepth(s, answer) ==
    LET s1 == [s EXCEPT !.userAnswers = Append(@, answer)]
        s2 == addToThoughtProcess(s1, answer, Len(s1.userAnswers))
    IN  addToConversationHistory(s2, "user", answer)

\* mutant: the answer is not added to the conversation history
RecordAnswerNoHistory(s, answer) ==
    LET s1 == [s EXCEPT !.userAnswers = Append(@, answer), !.questionDepth = @ + 1]
    IN  addToThoughtProcess(s1, answer, Len(s1.userAnswers))

\* lines 693-696
RecordAnswer(s, answer) ==
    LET s1 == [s EXCEPT !.userAnswers = Append(@, answer), !.questionDepth = @ + 1]
        s2 == addToThoughtProcess(s1, answer, Len(s1.userAnswers))
    IN  addToConversationHistory(s2, "user", answer)

\* userAnswers.slice(0, -1)
PreviousAnswers(s) == SubSeq(s.userAnswers, 1, Len(s.userAnswers) - 1)

\* the handler from the first push to the await of the OpenAI call
RespondSync(s, answer, confidence) ==
    LET s3 == RecordAnswer(s, answer)
        s4 == trackQuestionDiversity(s3, SelectedType(s3.questionDepth))
        s5 == detectContradiction(s4, answer, PreviousAnswers(s4))
        s6 == IF AssertionDue(confidence)
              THEN recordAssertion(s5, answer, NodeId(Len(s5.userAnswers)), confidence)
              ELSE s5
        s7 == IF MisconceptionDue(s6, confidence) THEN detectMisconception(s6, answer) ELSE s6
        s8 == updateConsistencyScore(s7, ContradictionFound(answer, PreviousAnswers(s4)) = FALSE)
    IN  IF ScaffoldDue(s8, confidence) THEN requestScaffold(s8) ELSE s8

\* the locals the continuation after the await still reads
RespondLocals(s, answer, confidence) ==
    LET s3 == RecordAnswer(s, answer)
    IN  [op               |-> "respond",
         answer           |-> answer,
         confidence       |-> confidence,
         selectedType     |-> SelectedType(s3.questionDepth),
         loopWarning      |-> LoopWarning(Append(s3.questionSequence, SelectedType(s3.questionDepth))),
         hasContradiction |-> ContradictionFound(answer, PreviousAnswers(s3))]

\* mutant: the score is not part of the test
ReadyForSynthesisNoScore(s) ==
    s.questionDepth >= 5 /\ Len(s.assertions) > 2

\* mutant: the score test is >= 60
ReadyForSynthesisLoose(s) ==
    s.questionDepth >= 5 /\ s.consistencyScore >= 60 /\ Len(s.assertions) > 2

ReadyForSynthesis(s) ==
    s.questionDepth >= 5 /\ s.consistencyScore > 60 /\ Len(s.assertions) > 2

RespondRejected(answer, confidence) ==
    /\ Falsy(answer) \/ Falsy(socraticState.topic)
    /\ lastResponse' =
         [op |-> "respond", status |-> 400,
          error |-> IF Falsy(answer) THEN "Answer is required"
                    ELSE "No active session. Initialize a topic first."]
    /\ UNCHANGED <<socraticState, pending>>

\* mutant: the check of socraticState.topic is missing
RespondAcceptedNoTopicCheck(answer, confidence) ==
    /\ ~Falsy(answer)
    /\ socraticState' = RespondSync(socraticState, answer, confidence)
    /\ pending' = Suspend(RespondLocals(socraticState, answer, confidence))
    /\ UNCHANGED lastResponse

RespondAccepted(answer, confidence) ==
    /\ ~Falsy(answer)
    /\ ~Falsy(socraticState.topic)
    /\ socraticState' = RespondSync(socraticState, answer, confidence)
    /\ pending' = Suspend(RespondLocals(socraticState, answer, confidence))
    /\ UNCHANGED lastResponse

\* mutant: a reply that reports readyForSynthesis also moves the session to synthesis
RespondResolvedAutoSynthesis(p, nextQuestion) ==
    /\ BagIn(p, pending)
    /\ p.op = "respond"
    /\ socraticState' =
         addToConversationHistory(
             [socraticState EXCEPT
                !.currentQuestion = nextQuestion,
                !.sessionPhase = IF ReadyForSynthesis(socraticState) THEN "synthesis" ELSE @],
             "assistant", nextQuestion)
    /\ lastResponse' =
         [op                    |-> "respond",
          status                |-> 200,
          question              |-> nextQuestion,
          depth                 |-> socraticState.questionDepth,
          questionType          |-> p.selectedType,
          confidence            |-> p.confidence,
          consistencyScore      |-> socraticState.consistencyScore,
          assertionCount        |-> Len(socraticState.assertions),
          contradictionDetected |-> p.hasContradiction,
          loopWarning           |-> p.loopWarning,
          readyForSynthesis     |-> ReadyForSynthesis(socraticState)]
    /\ pending' = Resume(p)

RespondResolved(p, nextQuestion) ==
    /\ BagIn(p, pending)
    /\ p.op = "respond"
    /\ socraticState' =
         addToConversationHistory([socraticState EXCEPT !.currentQuestion = nextQuestion],
                                  "assistant", nextQuestion)
    /\ lastResponse' =
         [op                    |-> "respond",
          status                |-> 200,
          question              |-> nextQuestion,
          depth                 |-> socraticState.questionDepth,
          questionType          |-> p.selectedType,
          confidence            |-> p.confidence,
          consistencyScore      |-> socraticState.consistencyScore,
          assertionCount        |-> Len(socraticState.assertions),
          contradictionDetected |-> p.hasContradiction,
          loopWarning           |-> p.loopWarning,
          readyForSynthesis     |-> ReadyForSynthesis(socraticState)]
    /\ pending' = Resume(p)

\* mutant: the catch block takes the answer back
RespondFailedRollback(p) ==
    /\ BagIn(p, pending)
    /\ p.op = "respond"
    /\ lastResponse' = [op |-> "respond", status |-> 500, error |-> "Failed to process response"]
    /\ pending' = Resume(p)
    /\ socraticState' =
         [socraticState EXCEPT
            !.userAnswers = SubSeq(@, 1, Len(@) - 1),
            !.questionDepth = Max(0, @ - 1)]

\* mutant: a failed LLM call takes the session down with it
RespondFailedDropsSession(p) ==
    /\ BagIn(p, pending)
    /\ p.op = "respond"
    /\ lastResponse' = [op |-> "respond", status |-> 500, error |-> "Failed to process response"]
    /\ pending' = Resume(p)
    /\ socraticState' = initializeSession(Null)

RespondFailed(p) ==
    /\ BagIn(p, pending)
    /\ p.op = "respond"
    /\ lastResponse' = [op |-> "respond", status |-> 500, error |-> "Failed to process response"]
    /\ pending' = Resume(p)
    /\ UNCHANGED socraticState

\* the handler up to its first return or await
Respond(answer, confidence) ==
    RespondRejected(answer, confidence) \/ RespondAccepted(answer, confidence)

(***************************************************************************)
(* POST /api/session/calibrate                                             *)
(***************************************************************************)
CalibrateRejected(calibrationResponses) ==
    /\ Len(calibrationResponses) = 0
    /\ lastResponse' = [op |-> "calibrate", status |-> 400,
                        error |-> "Calibration responses required"]
    /\ UNCHANGED <<socraticState, pending>>

CalibrateAccepted(calibrationResponses) ==
    /\ Len(calibrationResponses) > 0
    /\ socraticState' = assessBaselineKnowledge(socraticState, calibrationResponses)
    /\ pending' = Suspend([op |-> "calibrate",
                                   baselineLevel |-> BaselineLevel(calibrationResponses)])
    /\ UNCHANGED lastResponse

CalibrateResolved(p, firstQuestion) ==
    /\ BagIn(p, pending)
    /\ p.op = "calibrate"
    /\ socraticState' =
         addToConversationHistory(
             [socraticState EXCEPT !.currentQuestion = firstQuestion,
                                   !.sessionPhase = "progressive"],
             "assistant", firstQuestion)
    /\ lastResponse' = [op |-> "calibrate", status |-> 200,
                        baselineLevel |-> p.baselineLevel,
                        firstQuestion |-> firstQuestion,
                        sessionPhase |-> "progressive"]
    /\ pending' = Resume(p)

CalibrateFailed(p) ==
    /\ BagIn(p, pending)
    /\ p.op = "calibrate"
    /\ lastResponse' = [op |-> "calibrate", status |-> 500,
                        error |-> "Failed to calibrate session"]
    /\ pending' = Resume(p)
    /\ UNCHANGED socraticState

(***************************************************************************)
(* POST /api/question/generate                                             *)
(***************************************************************************)
GenerateRejected(topic) ==
    /\ Falsy(topic)
    /\ lastResponse' = [op |-> "generate", status |-> 400, error |-> "Topic is required"]
    /\ UNCHANGED <<socraticState, pending>>

GenerateAccepted(topic) ==
    /\ ~Falsy(topic)
    /\ pending' = Suspend([op |-> "generate", topic |-> topic])
    /\ UNCHANGED <<socraticState, lastResponse>>

GenerateResolved(p, question) ==
    /\ BagIn(p, pending)
    /\ p.op = "generate"
    /\ socraticState' =
         addToConversationHistory(
             [socraticState EXCEPT !.currentQuestion = question, !.questionDepth = 0],
             "assistant", question)
    /\ lastResponse' = [op |-> "generate", status |-> 200, question |-> question, depth |-> 0]
    /\ pending' = Resume(p)

GenerateFailed(p) ==
    /\ BagIn(p, pending)
    /\ p.op = "generate"
    /\ lastResponse' = [op |-> "generate", status |-> 500,
                        error |-> "Failed to generate question"]
    /\ pending' = Resume(p)
    /\ UNCHANGED socraticState

(***************************************************************************)
(* POST /api/scaffold/request                                              *)
(***************************************************************************)
ScaffoldRejected ==
    /\ Falsy(socraticState.topic)
    /\ lastResponse' = [op |-> "scaffold", status |-> 400, error |-> "No active session"]
    /\ UNCHANGED <<socraticState, pending>>

ScaffoldAccepted ==
    /\ ~Falsy(socraticState.topic)
    /\ socraticState' = requestScaffold(socraticState)
    /\ pending' = Suspend([op |-> "scaffold",
                                   levelName |-> ScaffoldInfo(socraticState).levelName,
                                   message |-> ScaffoldInfo(socraticState).message])
    /\ UNCHANGED lastResponse

ScaffoldResolved(p, scaffold) ==
    /\ BagIn(p, pending)
    /\ p.op = "scaffold"
    /\ socraticState' =
         addToConversationHistory(socraticState, "assistant",
                                  "[" \o p.levelName \o "] " \o scaffold)
    /\ lastResponse' = [op |-> "scaffold", status |-> 200,
                        level |-> p.levelName,
                        levelIndex |-> socraticState.currentScaffoldLevel,
                        scaffold |-> scaffold,
                        message |-> p.message]
    /\ pending' = Resume(p)

ScaffoldFailed(p) ==
    /\ BagIn(p, pending)
    /\ p.op = "scaffold"
    /\ lastResponse' = [op |-> "scaffold", status |-> 500,
                        error |-> "Failed to provide scaffold"]
    /\ pending' = Resume(p)
    /\ UNCHANGED socraticState

(***************************************************************************)
(* POST /api/session/synthesize, evaluate-synthesis, conclude;             *)
(* GET /api/knowledge-gap-map                                              *)
(***************************************************************************)
Synthesize ==
    /\ socraticState' = [socraticState EXCEPT !.sessionPhase = "synthesis"]
    /\ lastResponse' = [op |-> "synthesize", status |-> 200, phase |-> "synthesis",
                        provenAssertions |-> SubSeq(socraticState.assertions, 1,
                                                    Min(5, Len(socraticState.assertions)))]
    /\ UNCHANGED pending

EvaluateRejected(synthesisMemo) ==
    /\ Falsy(synthesisMemo)
    /\ lastResponse' = [op |-> "evaluate", status |-> 400, error |-> "Synthesis memo required"]
    /\ UNCHANGED <<socraticState, pending>>

\* lines 892-896
EvaluateSync(s, synthesisMemo) ==
    generateKnowledgeGapMap([evaluateSynthesis(s, synthesisMemo) EXCEPT !.sessionPhase = "conclusion"])

EvaluateAccepted(synthesisMemo) ==
    /\ ~Falsy(synthesisMemo)
    /\ socraticState' = EvaluateSync(socraticState, synthesisMemo)
    /\ pending' = Suspend([op |-> "evaluate",
                                   gapMap |-> GapMap(socraticState)])
    /\ UNCHANGED lastResponse

EvaluateResolved(p, finalQuestion) ==
    /\ BagIn(p, pending)
    /\ p.op = "evaluate"
    /\ socraticState' = addToConversationHistory(socraticState, "assistant", finalQuestion)
    /\ lastResponse' = [op |-> "evaluate", status |-> 200, phase |-> "final_validation",
                        finalQuestion |-> finalQuestion,
                        knowledgeGapMap |-> p.gapMap]
    /\ pending' = Resume(p)

EvaluateFailed(p) ==
    /\ BagIn(p, pending)
    /\ p.op = "evaluate"
    /\ lastResponse' = [op |-> "evaluate", status |-> 500,
                        error |-> "Failed to evaluate synthesis"]
    /\ pending' = Resume(p)
    /\ UNCHANGED socraticState

Conclude ==
    /\ socraticState' = [generateKnowledgeGapMap(socraticState) EXCEPT !.sessionPhase = "concluded"]
    /\ lastResponse' = [op |-> "conclude", status |-> 200, phase |-> "concluded",
                        knowledge_gap_map |-> GapMap(socraticState)]
    /\ UNCHANGED pending

GetKnowledgeGapMap ==
    /\ socraticState' = generateKnowledgeGapMap(socraticState)
    /\ lastResponse' = [op |-> "knowledge-gap-map", status |-> 200,
                        map |-> GapMap(socraticState)]
    /\ UNCHANGED pending

(***************************************************************************)
(* GET /api/session/state, /api/visualization/thought-process,             *)
(* /api/assertions/log, /api/misconceptions/detected                       *)
(***************************************************************************)
GetState ==
    /\ lastResponse' =
         [op |-> "state", status |-> 200,
          sessionSummary |->
              [topic               |-> socraticState.topic,
               phase               |-> socraticState.sessionPhase,
               questionDepth       |-> socraticState.questionDepth,
               consistencyScore    |-> socraticState.consistencyScore,
               assertionCount      |-> Len(socraticState.assertions),
               misconceptionCount  |-> Len(socraticState.misconceptions),
               baselineLevel       |-> socraticState.baselineKnowledgeLevel,
               currentPathStep     |-> socraticState.currentPathStep,
               totalPathSteps      |-> Len(socraticState.solutionPath)]]
    /\ UNCHANGED <<socraticState, pending>>

GetThoughtProcess ==
    /\ lastResponse' =
         [op |-> "thought-process", status |-> 200,
          nodes |-> socraticState.nodes,
          connections |-> socraticState.connections,
          metadata |-> [totalNodes |-> Len(socraticState.nodes),
                        totalConnections |-> Len(socraticState.connections),
                        depth |-> socraticState.questionDepth]]
    /\ UNCHANGED <<socraticState, pending>>

GetAssertionLog ==
    /\ lastResponse' =
         [op |-> "assertions", status |-> 200,
          assertions |-> socraticState.assertions,
          total |-> Len(socraticState.assertions),
          highConfidence |->
              LET IsHigh(a) == a.confidence > 85
              IN  Len(SelectSeq(socraticState.assertions, IsHigh)),
          foundational |->
              LET IsFoundational(a) == a.foundational
              IN  Len(SelectSeq(socraticState.assertions, IsFoundational))]
    /\ UNCHANGED <<socraticState, pending>>

GetMisconceptions ==
    /\ lastResponse' =
         [op |-> "misconceptions", status |-> 200,
          misconceptions |->
              [i \in 1..Len(socraticState.misconceptions) |->
                  [type              |-> socraticState.misconceptions[i].type,
                   severity          |-> socraticState.misconceptions[i].severity,
                   detected_at_depth |-> socraticState.misconceptions[i].detected_at,
                   resolved          |-> socraticState.misconceptions[i].resolved]],
          totalDetected |-> Len(socraticState.misconceptions)]
    /\ UNCHANGED <<socraticState, pending>>

(***************************************************************************)
(* The server: every route may be called at any time, and an awaited       *)
(* OpenAI call may resolve or reject at any later time, in any order.      *)
(***************************************************************************)
Init ==
    /\ socraticState = InitialState
    /\ pending = EmptyBag
    /\ lastResponse = [op |-> "none", status |-> 0]

\* room in conversationHistory for n more entries
HistoryRoom(n) == Len(socraticState.conversationHistory) + n <= MaxHistory

\* room for one more handler, which appends now entries before its await
Room(now) == BagCardinality(pending) < MaxPending /\ HistoryRoom(now)

Next ==
    \/ \E topic \in TopicInputs : SessionInitRejected(topic)
    \/ \E topic \in TopicInputs : SessionInit(topic)
    \/ SessionReset
    \/ \E a \in AnswerInputs, c \in FewConfidences : RespondRejected(a, c)
    \/ Room(1) /\ \E a \in AnswerInputs, c \in FewConfidences : RespondAccepted(a, c)
    \/ HistoryRoom(1) /\ \E p \in BagToSet(pending), q \in LLMReplies : RespondResolved(p, q)
    \/ \E p \in BagToSet(pending) : RespondFailed(p)
    \/ \E r \in CalibrationInputs : CalibrateRejected(r)
    \/ Room(0) /\ \E r \in CalibrationInputs : CalibrateAccepted(r)
    \/ HistoryRoom(1) /\ \E p \in BagToSet(pending), q \in LLMReplies : CalibrateResolved(p, q)
    \/ \E p \in BagToSet(pending) : CalibrateFailed(p)
    \/ \E topic \in TopicInputs : GenerateRejected(topic)
    \/ Room(0) /\ \E topic \in TopicInputs : GenerateAccepted(topic)
    \/ HistoryRoom(1) /\ \E p \in BagToSet(pending), q \in LLMReplies : GenerateResolved(p, q)
    \/ \E p \in BagToSet(pending) : GenerateFailed(p)
    \/ ScaffoldRejected
    \/ Room(0) /\ ScaffoldAccepted
    \/ HistoryRoom(1) /\ \E p \in BagToSet(pending), q \in LLMReplies : ScaffoldResolved(p, q)
    \/ \E p \in BagToSet(pending) : ScaffoldFailed(p)
    \/ Synthesize
    \/ \E memo \in MemoInputs : EvaluateRejected(memo)
    \/ Room(0) /\ \E memo \in MemoInputs : EvaluateAccepted(memo)
    \/ HistoryRoom(1) /\ \E p \in BagToSet(pending), q \in LLMReplies : EvaluateResolved(p, q)
    \/ \E p \in BagToSet(pending) : EvaluateFailed(p)
    \/ Conclude
    \/ GetKnowledgeGapMap

Spec == Init /\ [][Next]_vars

(***************************************************************************)
(* SpecRespond: sessions driven by init, reset and submit-answer calls      *)
(* only, the calls overlapping at the await, the OpenAI call free to fail. *)
(***************************************************************************)
NextRespond ==
    \/ \E topic \in TopicInputs : SessionInit(topic)
    \/ SessionReset
    \/ \E a \in AnswerInputs, c \in FewConfidences : RespondRejected(a, c)
    \/ /\ Len(socraticState.userAnswers) < MaxAnswers
       /\ BagCardinality(pending) < MaxOverlap
       /\ \E a \in AnswerInputs, c \in FewConfidences : RespondAccepted(a, c)
    \/ \E p \in BagToSet(pending), q \in LLMReplies : RespondResolved(p, q)
    \/ \E p \in BagToSet(pending) : RespondFailed(p)

SpecRespond == Init /\ [][NextRespond]_vars

(***************************************************************************)
(* SpecSeq, SpecDeep and SpecLong: one session, every answer submitted     *)
(* after the previous call has returned.  In SpecSeq the OpenAI call may   *)
(* fail; in SpecDeep and SpecLong it succeeds.                             *)
(***************************************************************************)
InitSession ==
    /\ socraticState = generateCalibrationQuestions(initializeSession("gravity"), "gravity")
    /\ pending = EmptyBag
    /\ lastResponse = [op |-> "init", status |-> 200, sessionPhase |-> "calibration"]

NextSeq ==
    \/ /\ Len(socraticState.userAnswers) < MaxSeqAnswers
       /\ pending = EmptyBag
       /\ \E a \in AnswerInputs, c \in Confidences : RespondAccepted(a, c)
    \/ \E p \in BagToSet(pending), q \in LLMReplies : RespondResolved(p, q)
    \/ \E p \in BagToSet(pending) : RespondFailed(p)

SpecSeq == InitSession /\ [][NextSeq]_vars

NextDeep ==
    \/ /\ Len(socraticState.userAnswers) < MaxDeepAnswers
       /\ pending = EmptyBag
       /\ \E a \in AnswerInputs, c \in LedgerConfidences : RespondAccepted(a, c)
    \/ \E p \in BagToSet(pending), q \in LLMReplies : RespondResolved(p, q)

SpecDeep == InitSession /\ [][NextDeep]_vars

NextLong ==
    \/ /\ Len(socraticState.userAnswers) < MaxLongAnswers
       /\ pending = EmptyBag
       /\ \E a \in AnswerInputs : RespondAccepted(a, DefaultConfidence)
    \/ \E p \in BagToSet(pending), q \in LLMReplies : RespondResolved(p, q)

SpecLong == InitSession /\ [][NextLong]_vars

(***************************************************************************)
(* SpecPhase: one session of confident, consistent answers, each submitted *)
(* after the previous call has returned, the OpenAI call free to fail,     *)
(* with synthesize and conclude called at any time.                        *)
(***************************************************************************)
PhaseAnswer == "cats purr"
PhaseConfidence == 71

NextPhase ==
    \/ /\ Len(socraticState.userAnswers) < MaxPhaseAnswers
       /\ pending = EmptyBag
       /\ RespondAccepted(PhaseAnswer, PhaseConfidence)
    \/ \E p \in BagToSet(pending), q \in LLMReplies : RespondResolved(p, q)
    \/ \E p \in BagToSet(pending) : RespondFailed(p)
    \/ Synthesize
    \/ Conclude

SpecPhase == InitSession /\ [][NextPhase]_vars

(***************************************************************************)
(* SpecPath: the roadmap functions progressToNextStep and                  *)
(* dynamicAdaptation, which no route calls, applied in any order to a      *)
(* session that also takes answers and can be initialised again and reset. *)
(* The session starts with one of a few gatekeeper tables.                 *)
(***************************************************************************)
GatekeeperInputs ==
    { [key \in {} |-> <<>>],
      ("step-1" :> <<[isMet |-> FALSE]>>),
      ("step-1" :> <<[isMet |-> TRUE]>>),
      ("step-2" :> <<[isMet |-> TRUE], [isMet |-> FALSE]>>) }

ErrorTypeInputs == {ERROR_TYPES.CALCULATION, ERROR_TYPES.LOGIC, ERROR_TYPES.FUNDAMENTAL}

Advance ==
    /\ socraticState' = progressToNextStep(socraticState)
    /\ lastResponse' = [op |-> "progressToNextStep"] @@ ProgressResult(socraticState)
    /\ UNCHANGED pending

Regress(misconceptionType) ==
    /\ socraticState' = dynamicAdaptation(socraticState, misconceptionType)
    /\ lastResponse' = [op |-> "dynamicAdaptation", type |-> misconceptionType]
                           @@ AdaptationResult(socraticState, misconceptionType)
    /\ UNCHANGED pending

InitPath ==
    /\ \E gatekeepers \in GatekeeperInputs :
          socraticState =
              [generateCalibrationQuestions(initializeSession("gravity"), "gravity")
                  EXCEPT !.pathGatekeepers = gatekeepers]
    /\ pending = EmptyBag
    /\ lastResponse = [op |-> "init", status |-> 200, sessionPhase |-> "calibration"]

NextPath ==
    \/ socraticState.currentPathStep < MaxPathStep /\ Advance
    \/ \E type \in ErrorTypeInputs : Regress(type)
    \/ \E topic \in TopicInputs : SessionInit(topic)
    \/ SessionReset
    \/ /\ Len(socraticState.userAnswers) < MaxPathAnswers
       /\ pending = EmptyBag
       /\ RespondAccepted(PhaseAnswer, PhaseConfidence)
    \/ \E p \in BagToSet(pending), q \in LLMReplies : RespondResolved(p, q)

SpecPath == InitPath /\ [][NextPath]_vars

(***************************************************************************)
(* SpecQueries: init and answers submitted one after the other, with the   *)
(* GET routes called at any time, also before the first init.              *)
(***************************************************************************)
NextQueries ==
    \/ \E topic \in TopicInputs : SessionInit(topic)
    \/ /\ Len(socraticState.userAnswers) < MaxQueryAnswers
       /\ pending = EmptyBag
       /\ \E a \in AnswerInputs, c \in FewConfidences : RespondAccepted(a, c)
    \/ \E p \in BagToSet(pending), q \in LLMReplies : RespondResolved(p, q)
    \/ GetState
    \/ GetThoughtProcess
    \/ GetAssertionLog
    \/ GetMisconceptions
    \/ GetKnowledgeGapMap

SpecQueries == Init /\ [][NextQueries]_vars

(***************************************************************************)
(* SpecLive: SpecSeq with every awaited OpenAI call eventually settled:    *)
(* the promise resolves or rejects and the handler then runs to its reply. *)
(***************************************************************************)
RespondSettled ==
    \/ \E p \in BagToSet(pending), q \in LLMReplies : RespondResolved(p, q)
    \/ \E p \in BagToSet(pending) : RespondFailed(p)

SpecLive == InitSession /\ [][NextSeq]_vars /\ WF_vars(RespondSettled)

(***************************************************************************)
(* SpecText: one session of confident answers of varied wording, each      *)
(* submitted after the previous call has returned, the OpenAI call         *)
(* succeeding.                                                             *)
(***************************************************************************)
TextConfidence == 86

NextText ==
    \/ /\ Len(socraticState.userAnswers) < MaxTextAnswers
       /\ pending = EmptyBag
       /\ \E a \in StatementTexts : RespondAccepted(a, TextConfidence)
    \/ \E p \in BagToSet(pending), q \in LLMReplies : RespondResolved(p, q)

SpecText == InitSession /\ [][NextText]_vars

(***************************************************************************)
(* Properties.                                                             *)
(***************************************************************************)
RespondInputs == AnswerInputs \X Confidences

IsRespondReply(status) == lastResponse.op = "respond" /\ lastResponse.status = status

AssistantEntries(s) ==
    LET IsAssistant(m) == m.role = "assistant" IN SelectSeq(s.conversationHistory, IsAssistant)

\* C1: in sessions driven by init, reset and submit-answer calls (any text, any
\* confidence, calls overlapping, the LLM call succeeding or failing),
\* questionDepth equals the length of userAnswers in every state.
C1_DepthIsAnswerCount ==
    socraticState.questionDepth = Len(socraticState.userAnswers)

\* two answers were accepted, one call got its reply and one call failed
C1_Witness ==
    /\ Len(socraticState.userAnswers) = 2
    /\ Len(AssistantEntries(socraticState)) = 1
    /\ IsRespondReply(500)
    /\ pending = EmptyBag

\* C2: consistencyScore stays within [0,100] in every reachable state.
C2_ScoreInRange ==
    /\ socraticState.consistencyScore >= 0
    /\ socraticState.consistencyScore <= 100

\* an eleventh answer without contradiction arrived at score 100
C2_Witness ==
    /\ Len(socraticState.userAnswers) = 11
    /\ socraticState.contradictions = <<>>
    /\ socraticState.consistencyScore = 100

\* C3: no step other than init or reset moves the session phase to an earlier
\* phase of calibration -> progressive -> synthesis -> conclusion.
PhaseRank(phase) ==
    CASE phase = "calibration" -> 0
      [] phase = "progressive" -> 1
      [] phase = "synthesis"   -> 2
      [] OTHER                 -> 3

C3_PhaseOnlyForward ==
    [][ \/ \E topic \in TopicInputs : SessionInit(topic)
        \/ SessionReset
        \/ PhaseRank(socraticState'.sessionPhase) >= PhaseRank(socraticState.sessionPhase)
      ]_vars

\* C4: a submit-answer arriving while topic is unset, or with an empty answer,
\* is answered with a 400 error and writes nothing to the session.
C4_RejectedWritesNothing ==
    [][ \A rq \in RespondInputs :
          (Respond(rq[1], rq[2]) /\ (Falsy(rq[1]) \/ Falsy(socraticState.topic)))
          => /\ socraticState' = socraticState
             /\ pending' = pending
             /\ lastResponse'.op = "respond"
             /\ lastResponse'.status = 400
      ]_vars

\* after a reset that followed an accepted answer, a submit-answer was rejected
\* for want of a session
C4_Witness ==
    /\ IsRespondReply(400)
    /\ lastResponse.error = "No active session. Initialize a topic first."
    /\ Falsy(socraticState.topic)
    /\ socraticState.userAnswers = <<>>
    /\ pending # EmptyBag

\* C5: the synchronous part of an accepted submit-answer commits the answer,
\* the depth, the tag and the score before the LLM call; when that call fails
\* the reply is a 500 error and the session record is left exactly as it is
\* (nothing rolled back, currentQuestion unchanged, no assistant entry added).
C5_FailureKeepsMutations ==
    [][ /\ \A rq \in RespondInputs :
             RespondAccepted(rq[1], rq[2])
             => /\ socraticState'.userAnswers = Append(socraticState.userAnswers, rq[1])
                /\ socraticState'.questionDepth = socraticState.questionDepth + 1
                /\ socraticState'.conversationHistory =
                       Append(socraticState.conversationHistory,
                              [role |-> "user", content |-> rq[1]])
                /\ Len(socraticState'.questionSequence) = Len(socraticState.questionSequence) + 1
                /\ socraticState'.consistencyScore =
                       (IF ContradictionFound(rq[1], socraticState.userAnswers)
                        THEN Max(0, socraticState.consistencyScore - 5)
                        ELSE Min(100, socraticState.consistencyScore + 10))
                /\ socraticState'.currentQuestion = socraticState.currentQuestion
        /\ (lastResponse' # lastResponse /\ lastResponse'.op = "respond"
                /\ lastResponse'.status = 500)
             => socraticState' = socraticState
      ]_vars

\* a call failed: its answer, assertion and score are in the session, no
\* question and no assistant entry are
C5_Witness ==
    /\ IsRespondReply(500)
    /\ pending = EmptyBag
    /\ Len(socraticState.userAnswers) = 1
    /\ Len(socraticState.assertions) = 1
    /\ socraticState.consistencyScore = 10
    /\ socraticState.currentQuestion = Null
    /\ AssistantEntries(socraticState) = <<>>

\* C6: at most one submit-answer handler is suspended at the LLM call.
C6_SingleFlight ==
    BagCardinality(pending) <= 1

\* C7: the readyForSynthesis flag of a successful submit-answer reply is
\* depth >= 5 and consistencyScore > 60 and assertion count > 2, on the values
\* the session holds when the reply is sent.
C7_ReadyFlag ==
    IsRespondReply(200) =>
        /\ lastResponse.readyForSynthesis =
              (/\ lastResponse.depth >= 5
               /\ lastResponse.consistencyScore > 60
               /\ lastResponse.assertionCount > 2)
        /\ pending = EmptyBag =>
              /\ lastResponse.depth = socraticState.questionDepth
              /\ lastResponse.consistencyScore = socraticState.consistencyScore
              /\ lastResponse.assertionCount = Len(socraticState.assertions)

\* a reply carried readyForSynthesis = true
C7_Witness ==
    /\ IsRespondReply(200)
    /\ lastResponse.readyForSynthesis

\* C8: an accepted submit-answer appends exactly one assertion, for that answer,
\* when confidence > 70, and none when confidence <= 70.
C8_AssertionThreshold ==
    [][ \A rq \in RespondInputs :
          RespondAccepted(rq[1], rq[2])
          => IF rq[2] > 70
             THEN socraticState'.assertions =
                      Append(socraticState.assertions,
                             [statement    |-> rq[1],
                              nodeId       |-> NodeId(Len(socraticState.userAnswers) + 1),
                              confidence   |-> rq[2],
                              foundational |-> TRUE])
             ELSE socraticState'.assertions = socraticState.assertions
      ]_vars

\* the first answer came with confidence 71 and was recorded, the second came
\* with confidence 70 and was not
C8_Witness ==
    /\ Len(socraticState.userAnswers) = 2
    /\ Len(socraticState.assertions) = 1
    /\ socraticState.assertions[1].confidence = 71
    /\ socraticState.assertions[1].nodeId = "node-1"
    /\ \E p \in BagToSet(pending) : p.op = "respond" /\ p.confidence = 70

RECURSIVE ScoreAfter(_, _)
ScoreAfter(answers, n) ==
    IF n = 0 THEN 0
    ELSE IF ContradictionFound(answers[n], SubSeq(answers, 1, n - 1))
         THEN Max(0, ScoreAfter(answers, n - 1) - 5)
         ELSE Min(100, ScoreAfter(answers, n - 1) + 10)

C10_ScoreFollowsAnswers ==
    socraticState.consistencyScore =
        ScoreAfter(socraticState.userAnswers, Len(socraticState.userAnswers))

\* a second answer contradicted the first: 0 -> 10 -> 5, with other
\* operations having run in the session
C10_Witness ==
    /\ Len(socraticState.userAnswers) = 2
    /\ Len(socraticState.contradictions) = 1
    /\ socraticState.consistencyScore = 5
    /\ socraticState.sessionPhase = "synthesis"
    /\ socraticState.knowledgeGapMap # <<>>

\* C11: the tag submit-answer selects at depth d is the d-th of feynman,
\* edgeCase, assumption, doubleDown, counterExemplar, reflectiveToss for d in
\* 1..6 and reflectiveToss for every d > 6: the sequence of tags logged so
\* far, the tag held by a suspended call and the tag of a reply all agree
\* with that.
TagAtDepth(d) ==
    CASE d = 1 -> "feynman"
      [] d = 2 -> "edgeCase"
      [] d = 3 -> "assumption"
      [] d = 4 -> "doubleDown"
      [] d = 5 -> "counterExemplar"
      [] OTHER -> "reflectiveToss"

C11_TagSaturates ==
    /\ \A d \in 1..Len(socraticState.questionSequence) :
          socraticState.questionSequence[d] = TagAtDepth(d)
    /\ \A p \in BagToSet(pending) :
          p.op = "respond" => p.selectedType = TagAtDepth(socraticState.questionDepth)
    /\ IsRespondReply(200) /\ pending = EmptyBag =>
          lastResponse.questionType = TagAtDepth(lastResponse.depth)

\* the tenth answer was answered with a reflectiveToss question
C11_Witness ==
    /\ IsRespondReply(200)
    /\ lastResponse.depth = 10
    /\ lastResponse.questionType = "reflectiveToss"
    /\ socraticState.questionSequence[6] = "reflectiveToss"
    /\ socraticState.questionSequence[10] = "reflectiveToss"

\* the histories and ledgers of the session are empty and its counters are 0
Cleared(s) ==
    /\ s.userAnswers = <<>>
    /\ s.conversationHistory = <<>>
    /\ s.assertions = <<>>
    /\ s.misconceptions = <<>>
    /\ s.contradictions = <<>>
    /\ s.questionSequence = <<>>
    /\ s.questionDepth = 0
    /\ s.consistencyScore = 0
    /\ s.currentPathStep = 0
    /\ s.currentScaffoldLevel = 0
    /\ s.sessionPhase = "calibration"

\* C12: whatever the session holds and whatever calls are suspended, the
\* state after a reset has topic null, empty userAnswers, conversationHistory,
\* assertions, misconceptions, contradictions and question-type sequence,
\* questionDepth, consistencyScore, currentPathStep and scaffold level 0, and
\* phase calibration.
C12_ResetClears ==
    [][SessionReset => socraticState'.topic = Null /\ Cleared(socraticState')]_vars

\* a reset has cleared a session while a submit-answer call of that session
\* was still waiting for the LLM
C12_Witness ==
    /\ lastResponse = [op |-> "reset", status |-> 200]
    /\ socraticState.topic = Null
    /\ Cleared(socraticState)
    /\ \E p \in BagToSet(pending) : p.op = "respond"

\* C13: an init with a non-empty topic leaves a session with that topic,
\* phase calibration, empty histories and ledgers and questionDepth,
\* consistencyScore, currentPathStep and scaffold level 0, whatever the
\* session held before; an init without a topic is answered with an error and
\* leaves the session as it was.
C13_InitDiscards ==
    [][\A topic \in TopicInputs :
          /\ SessionInit(topic) =>
                /\ ~Falsy(topic)
                /\ socraticState'.topic = topic
                /\ Cleared(socraticState')
                /\ lastResponse'.status = 200
          /\ SessionInitRejected(topic) =>
                /\ Falsy(topic)
                /\ UNCHANGED socraticState
                /\ lastResponse'.status = 400
      ]_vars

\* an init has replaced a session while a submit-answer call of that session
\* was still waiting for the LLM
C13_Witness ==
    /\ lastResponse.op = "init"
    /\ lastResponse.status = 200
    /\ socraticState.topic = "gravity"
    /\ Cleared(socraticState)
    /\ \E p \in BagToSet(pending) : p.op = "respond"

\* C14: with every route enabled (init, generate, calibrate, submit-answer,
\* scaffold request, synthesize, evaluate-synthesis, conclude, reset), the
\* number of answers the session holds equals its questionDepth in every state.
C14_DepthIsAnswerCountAllRoutes ==
    Len(socraticState.userAnswers) = socraticState.questionDepth

\* C15: in every state the session phase is one of calibration, progressive,
\* synthesis and conclusion, also after conclude.
Phases == {"calibration", "progressive", "synthesis", "conclusion"}

C15_PhaseIsOneOfFour ==
    socraticState.sessionPhase \in Phases

\* C16: no step of submit-answer (its acceptance, its reply after the LLM
\* call, its failure) changes the session phase, also when the reply reports
\* readyForSynthesis = true; the phase becomes synthesis only in a step of
\* the synthesize operation.
C16_RespondKeepsPhase ==
    [][/\ (\/ \E rq \in RespondInputs : RespondAccepted(rq[1], rq[2])
           \/ \E p \in BagToSet(pending), q \in LLMReplies : RespondResolved(p, q)
           \/ \E p \in BagToSet(pending) : RespondFailed(p))
          => socraticState'.sessionPhase = socraticState.sessionPhase
       /\ (socraticState'.sessionPhase = "synthesis" /\ socraticState.sessionPhase # "synthesis")
          => Synthesize
      ]_vars

\* a reply reported readyForSynthesis = true and the session is still in calibration
C16_Witness ==
    /\ IsRespondReply(200)
    /\ lastResponse.readyForSynthesis = TRUE
    /\ socraticState.sessionPhase = "calibration"

\* C17: an accepted evaluate-synthesis stores the memo and leaves the session
\* in phase synthesis; it does not itself enter phase conclusion.
C17_EvaluateLeavesSynthesis ==
    [][\A memo \in MemoInputs :
          EvaluateAccepted(memo) =>
              /\ socraticState'.synthesisMemo = memo
              /\ socraticState'.sessionPhase = "synthesis"
      ]_vars

\* C18: a scaffold request at level 0 returns level 1 named "nudge", one at
\* level 1 returns level 2 named "hint", and one at level 2 leaves the level
\* at 2 and returns the message that the maximum is reached.
CeilingMessage == "Maximum scaffolding level reached. Please share your thinking."

C18_ScaffoldNames ==
    [][ScaffoldAccepted =>
          LET level == socraticState.currentScaffoldLevel
              info  == ScaffoldInfo(socraticState)
          IN  /\ level = 0 => info.level = 1 /\ info.levelName = "nudge"
              /\ level = 1 => info.level = 2 /\ info.levelName = "hint"
              /\ level = 2 => /\ socraticState'.currentScaffoldLevel = 2
                              /\ info.message = CeilingMessage
      ]_vars

\* C19: after a submit-answer call has stored the next question, the scaffold
\* level is 0, however many scaffold requests were made before.
C19_NewQuestionResetsScaffold ==
    [][(\E p \in BagToSet(pending), q \in LLMReplies : RespondResolved(p, q))
          => socraticState'.currentScaffoldLevel = 0
      ]_vars

\* C20: the scaffold level is within 0..2 in every state; a scaffold request
\* below 2, made through the scaffold route or by a low-confidence answer,
\* raises it by exactly 1; a scaffold request at 2 leaves it unchanged and
\* returns only the maximum-scaffolding message, without a level name.
C20_ScaffoldCeiling ==
    [][LET level == socraticState.currentScaffoldLevel
           raised == IF level < 2 THEN level + 1 ELSE level
       IN  /\ socraticState'.currentScaffoldLevel \in 0..2
           /\ ScaffoldAccepted =>
                 /\ socraticState'.currentScaffoldLevel = raised
                 /\ \E p \in BagToSet(pending') :
                       /\ pending' = pending (+) SetToBag({p})
                       /\ p.op = "scaffold"
                       /\ level < 2 => p.levelName \in {"hint", "partial_explanation"}
                       /\ level = 2 => p.levelName = Undefined /\ p.message = CeilingMessage
           /\ \A p \in BagToSet(pending') :
                 (p.op = "respond" /\ pending' = pending (+) SetToBag({p})) =>
                     socraticState'.currentScaffoldLevel =
                         IF p.confidence < 40 THEN raised ELSE level
      ]_vars

\* a scaffold request made at level 2 is waiting for the LLM
C20_Witness ==
    /\ socraticState.currentScaffoldLevel = 2
    /\ \E p \in BagToSet(pending) :
          p.op = "scaffold" /\ p.levelName = Undefined /\ p.message = CeilingMessage

\* C21 (as claimed): whatever tags were observed before, the observation that
\* makes the three most recent tags identical returns the repetition warning,
\* and one that makes only the two most recent tags identical returns normal.
C21_ThreeIdenticalWarn ==
    \A p \in BagToSet(pending) :
        p.op = "respond" =>
            LET q == socraticState.questionSequence
                n == Len(q)
            IN  /\ (n >= 3 /\ q[n] = q[n - 1] /\ q[n - 1] = q[n - 2]) => p.loopWarning
                /\ (n >= 2 /\ q[n] = q[n - 1] /\ (n = 2 \/ q[n - 2] # q[n - 1]))
                      => ~p.loopWarning

\* C21 (amended): an observation returns the repetition warning exactly when
\* at least three tags have been observed and the most recent five (all of
\* them when fewer than five) are identical.
C21_FiveWindowWarn ==
    \A p \in BagToSet(pending) :
        p.op = "respond" =>
            LET q == socraticState.questionSequence
                n == Len(q)
            IN  p.loopWarning <=>
                    (n >= 3 /\ \A i \in 1..n : i > n - 5 => q[i] = q[n])

\* the tenth answer made the last five tags identical and was warned about
C21_Witness ==
    /\ Len(socraticState.questionSequence) = 10
    /\ \E p \in BagToSet(pending) : p.op = "respond" /\ p.loopWarning

\* C22: currentPathStep is an index of the six-step path, 0..5, in every
\* state, whatever sequence of progressToNextStep and dynamicAdaptation calls
\* is interleaved with the other session operations.
C22_StepIsValidIndex ==
    socraticState.currentPathStep \in 0..5

\* C28: progressToNextStep raises currentPathStep by exactly 1 and sets the
\* phase to progressive when the target step has no gatekeeper conditions
\* registered or all of them are met; otherwise it returns the reason
\* "Prerequisites not met" and leaves currentPathStep and the phase unchanged.
TargetOpen(s) ==
    LET key == "step-" \o ToString(s.currentPathStep + 1)
    IN  \/ s.currentPathStep + 1 = 0
        \/ key \notin DOMAIN s.pathGatekeepers
        \/ \A i \in 1..Len(s.pathGatekeepers[key]) : s.pathGatekeepers[key][i].isMet = TRUE

C28_AdvanceIsGated ==
    [][Advance =>
          IF TargetOpen(socraticState)
          THEN /\ socraticState'.currentPathStep = socraticState.currentPathStep + 1
               /\ socraticState'.sessionPhase = "progressive"
               /\ lastResponse'.success = TRUE
          ELSE /\ socraticState'.currentPathStep = socraticState.currentPathStep
               /\ socraticState'.sessionPhase = socraticState.sessionPhase
               /\ lastResponse'.success = FALSE
               /\ lastResponse'.reason = "Prerequisites not met"
      ]_vars

\* the first call advanced to step 1, the next met an unmet condition of step 2
C28_Witness ==
    /\ lastResponse.op = "progressToNextStep"
    /\ lastResponse.success = FALSE
    /\ socraticState.currentPathStep = 1
    /\ socraticState.sessionPhase = "progressive"

\* C29: dynamicAdaptation with the classification fundamental sets
\* currentPathStep to max(0, currentPathStep - 2); with calculation or logic
\* it leaves currentPathStep as it is; in both cases the phase is unchanged.
\* Within a session (no init or reset) no other step lowers currentPathStep.
C29_RegressOnFundamental ==
    [][/\ \A type \in ErrorTypeInputs :
            Regress(type) =>
                /\ socraticState'.currentPathStep =
                      IF type = "fundamental"
                      THEN (IF socraticState.currentPathStep >= 2
                            THEN socraticState.currentPathStep - 2 ELSE 0)
                      ELSE socraticState.currentPathStep
                /\ socraticState'.sessionPhase = socraticState.sessionPhase
       /\ socraticState'.currentPathStep < socraticState.currentPathStep =>
            \/ Regress("fundamental")
            \/ SessionReset
            \/ \E topic \in TopicInputs : SessionInit(topic)
      ]_vars

\* a fundamental classification moved a session in phase progressive back
\* from step 1 to the floor
C29_Witness ==
    /\ lastResponse.op = "dynamicAdaptation"
    /\ lastResponse.type = "fundamental"
    /\ lastResponse.targetStep = "Foundation"
    /\ socraticState.currentPathStep = 0
    /\ socraticState.sessionPhase = "progressive"

\* C23: in every state, also while submit-answer calls overlap at the LLM
\* await, each recorded assertion carries a node id node-k with
\* 1 <= k <= Len(userAnswers), and userAnswers[k] is the assertion's statement.
C23_AssertionSourceExists ==
    \A i \in 1..Len(socraticState.assertions) :
        \E k \in 1..Len(socraticState.userAnswers) :
            /\ socraticState.assertions[i].nodeId = "node-" \o ToString(k)
            /\ socraticState.userAnswers[k] = socraticState.assertions[i].statement

\* two overlapping calls have each recorded an assertion, for different answers
C23_Witness ==
    /\ BagCardinality(pending) = 2
    /\ Len(socraticState.assertions) = 2
    /\ socraticState.assertions[1].nodeId = "node-1"
    /\ socraticState.assertions[2].nodeId = "node-2"
    /\ socraticState.assertions[1].statement # socraticState.assertions[2].statement

\* C24: in every state the entries of conversationHistory with role user,
\* in order, have exactly the texts of userAnswers, in order.
UserEntries(s) ==
    LET IsUser(m) == m.role = "user" IN SelectSeq(s.conversationHistory, IsUser)

C24_UserEntriesAreAnswers ==
    LET entries == UserEntries(socraticState)
    IN  /\ Len(entries) = Len(socraticState.userAnswers)
        /\ \A k \in 1..Len(entries) : entries[k].content = socraticState.userAnswers[k]

\* an answer was given after a generated question: assistant entry, then user entry
C24_Witness ==
    /\ Len(socraticState.conversationHistory) = 2
    /\ socraticState.conversationHistory[1].role = "assistant"
    /\ socraticState.conversationHistory[2].role = "user"
    /\ socraticState.userAnswers = <<socraticState.conversationHistory[2].content>>

\* C25: every step other than an init or a reset leaves the existing entries
\* of conversationHistory, userAnswers, the assertion ledger and the
\* question-type sequence unchanged and in place, adding entries only at the end.
IsPrefix(old, new) ==
    Len(old) <= Len(new) /\ \A i \in 1..Len(old) : new[i] = old[i]

C25_AppendOnly ==
    [][\/ SessionReset
       \/ \E topic \in TopicInputs : SessionInit(topic)
       \/ /\ IsPrefix(socraticState.conversationHistory, socraticState'.conversationHistory)
          /\ IsPrefix(socraticState.userAnswers, socraticState'.userAnswers)
          /\ IsPrefix(socraticState.assertions, socraticState'.assertions)
          /\ IsPrefix(socraticState.questionSequence, socraticState'.questionSequence)
      ]_vars

\* a second confident answer has extended all four lists
C25_Witness ==
    /\ Len(socraticState.userAnswers) = 2
    /\ Len(socraticState.assertions) = 2
    /\ Len(socraticState.questionSequence) = 2
    /\ Len(socraticState.conversationHistory) = 2

\* C26: the queries GET state, thought-process, assertion log, misconceptions
\* and knowledge-gap-map leave every field of the session record unchanged.
C26_QueriesAreReadOnly ==
    [][(GetState \/ GetThoughtProcess \/ GetAssertionLog \/ GetMisconceptions
            \/ GetKnowledgeGapMap)
          => UNCHANGED socraticState
      ]_vars

\* C27: when every LLM call eventually returns or fails, every accepted
\* submit-answer eventually completes; it completes in one step, with either
\* the next question stored and a 200 reply or a labelled 500 reply and no
\* question stored; and after a failed submit-answer the session still has
\* its topic and accepts the next answer.
C27_RespondCompletes ==
    /\ (pending # EmptyBag) ~> (pending = EmptyBag)
    /\ [][pending' # pending /\ pending # EmptyBag =>
              /\ pending' = EmptyBag
              /\ lastResponse'.op = "respond"
              /\ \/ /\ lastResponse'.status = 200
                    /\ socraticState'.currentQuestion = lastResponse'.question
                    /\ Len(AssistantEntries(socraticState')) =
                           Len(AssistantEntries(socraticState)) + 1
                 \/ /\ lastResponse'.status = 500
                    /\ lastResponse'.error = "Failed to process response"
                    /\ UNCHANGED socraticState
         ]_vars
    /\ [](IsRespondReply(500) /\ pending = EmptyBag
            /\ Len(socraticState.userAnswers) < MaxSeqAnswers
          => ENABLED (\E a \in AnswerTexts : RespondAccepted(a, DefaultConfidence)))

\* the first answer's LLM call failed, the second answer was processed and
\* got its next question
C27_Witness ==
    /\ IsRespondReply(200)
    /\ pending = EmptyBag
    /\ Len(socraticState.userAnswers) = 2
    /\ Len(socraticState.conversationHistory) = 3
    /\ socraticState.conversationHistory[2].role = "user"
    /\ socraticState.conversationHistory[3].role = "assistant"

\* C30: in every state, the start state before any init included, the
\* knowledge-gap map computed from the session has one entry for each of the
\* 6 path steps: the entries before currentPathStep are mastered with
\* confidence 100, the entry at currentPathStep is current with confidence
\* consistencyScore, and the entries after it are locked with confidence 0.
C30_GapMapShape ==
    LET map  == GapMap(socraticState)
        step == socraticState.currentPathStep
    IN  /\ Len(map) = 6
        /\ step \in 0..5
        /\ \A idx \in 1..Len(map) :
              /\ idx - 1 < step => map[idx].status = "mastered" /\ map[idx].confidence = 100
              /\ idx - 1 = step => /\ map[idx].status = "current"
                                   /\ map[idx].confidence = socraticState.consistencyScore
              /\ idx - 1 > step => map[idx].status = "locked" /\ map[idx].confidence = 0

\* C31: the detector reports a prior statement as conflicting exactly when
\* the new statement contains a negation marker (not, no, never) that the
\* prior statement does not contain and the two statements share a token
\* (lower-cased, split at whitespace); it returns true exactly when some prior
\* statement conflicts, and the subset it records is exactly those statements.
NegationMarkers == {"not", "no", "never"}

Tokens(statement) ==
    LET words == splitWhitespace(toLowerCase(statement))
    IN  {words[k] : k \in 1..Len(words)} \ {""}

ClaimedConflict(newStatement, prev) ==
    /\ \E marker \in NegationMarkers :
          /\ includes(toLowerCase(newStatement), marker)
          /\ ~includes(toLowerCase(prev), marker)
    /\ Tokens(newStatement) \cap Tokens(prev) # {}

ClaimedConflictOf ==
    [newStatement \in StatementTexts, prev \in StatementTexts |->
        ClaimedConflict(newStatement, prev)]

C31_DetectorExact ==
    \A p \in BagToSet(pending) :
        p.op = "respond" =>
            LET n       == Len(socraticState.userAnswers)
                prior   == SubSeq(socraticState.userAnswers, 1, n - 1)
                IsClaimed(prev) == ClaimedConflictOf[p.answer, prev]
                claimed == SelectSeq(prior, IsClaimed)
                records == socraticState.contradictions
            IN  /\ p.hasContradiction = (claimed # <<>>)
                /\ claimed # <<>> =>
                      /\ records # <<>>
                      /\ records[Len(records)].new = p.answer
                      /\ records[Len(records)].conflictsWith = claimed

\* C32: an accepted submit-answer appends exactly one contradiction record,
\* stamped with the questionDepth the answer has reached, when the detector
\* finds a conflict with the prior answers, and leaves the contradictions
\* unchanged otherwise; the first answer of a session appends none; no other
\* step of submit-answer touches the list.
C32_OneRecordPerConflict ==
    [][/\ \A rq \in RespondInputs :
            RespondAccepted(rq[1], rq[2]) =>
                LET old == socraticState.contradictions
                    new == socraticState'.contradictions
                IN  /\ IF ContradictionFound(rq[1], socraticState.userAnswers)
                       THEN /\ Len(new) = Len(old) + 1
                            /\ SubSeq(new, 1, Len(old)) = old
                            /\ new[Len(new)].new = rq[1]
                            /\ new[Len(new)].detected_at = socraticState'.questionDepth
                       ELSE new = old
                    /\ socraticState.userAnswers = <<>> => new = old
       /\ (\/ \E p \in BagToSet(pending), q \in LLMReplies : RespondResolved(p, q)
           \/ \E p \in BagToSet(pending) : RespondFailed(p)
           \/ \E rq \in RespondInputs : RespondRejected(rq[1], rq[2]))
            => socraticState'.contradictions = socraticState.contradictions
      ]_vars

\* the second answer contradicted the first: one record, stamped with depth 2
C32_Witness ==
    /\ Len(socraticState.userAnswers) = 2
    /\ Len(socraticState.contradictions) = 1
    /\ socraticState.contradictions[1].detected_at = 2
    /\ socraticState.contradictions[1].conflictsWith = <<socraticState.userAnswers[1]>>

\* C33: every logged misconception is classified calculation when its text
\* contains "forgot" or "miscalculated" (also when it contains "but" and
\* "instead" as well), otherwise logic when it contains both "but" and
\* "instead", otherwise fundamental; every text gets one of the three.
C33_ClassifierRules ==
    \A i \in 1..Len(socraticState.misconceptions) :
        LET m    == socraticState.misconceptions[i]
            self == includes(m.answer, "forgot") \/ includes(m.answer, "miscalculated")
            both == includes(m.answer, "but") /\ includes(m.answer, "instead")
        IN  /\ m.type \in {"calculation", "logic", "fundamental"}
            /\ self => m.type = "calculation"
            /\ ~self /\ both => m.type = "logic"
            /\ ~self /\ ~both => m.type = "fundamental"

\* a text with both kinds of marker was classified calculation
C33_Witness ==
    \E i \in 1..Len(socraticState.misconceptions) :
        /\ socraticState.misconceptions[i].answer = "I forgot but did it instead"
        /\ socraticState.misconceptions[i].type = "calculation"

\* C34: while the topic is null (before the first init, after a reset), a
\* scaffold request, synthesize, evaluate-synthesis, conclude, generate or
\* calibrate call is answered with an error and writes nothing: none of them
\* gets past its checks.
C34_NoSessionNoMutation ==
    [][socraticState.topic = Null =>
          /\ ~ScaffoldAccepted
          /\ ~Synthesize
          /\ ~Conclude
          /\ \A memo \in MemoInputs : ~EvaluateAccepted(memo)
          /\ \A topic \in TopicInputs : ~GenerateAccepted(topic)
          /\ \A r \in CalibrationInputs : ~CalibrateAccepted(r)
      ]_vars

\* C35: in a session that has taken no answer since its init or reset,
\* conversationHistory is empty and currentQuestion is null, also after a
\* submit-answer call issued before that init or reset has completed.
C35_StaleReplyDropped ==
    socraticState.userAnswers = <<>> =>
        /\ socraticState.conversationHistory = <<>>
        /\ socraticState.currentQuestion = Null

\* C36: an accepted submit-answer with confidence < 40 at a scaffold level
\* below 2 raises the level by exactly 1; with confidence >= 40, or at level
\* 2, it leaves the level unchanged.  No step other than an init or a reset
\* lowers the level.
C36_LowConfidenceScaffolds ==
    [][/\ \A p \in BagToSet(pending') :
            (p.op = "respond" /\ pending' = pending (+) SetToBag({p})) =>
                socraticState'.currentScaffoldLevel =
                    IF p.confidence < 40 /\ socraticState.currentScaffoldLevel < 2
                    THEN socraticState.currentScaffoldLevel + 1
                    ELSE socraticState.currentScaffoldLevel
       /\ socraticState'.currentScaffoldLevel < socraticState.currentScaffoldLevel =>
            (SessionReset \/ \E topic \in TopicInputs : SessionInit(topic))
      ]_vars

\* two answers of confidence 39 took the level to 2; a third is waiting at the ceiling
C36_Witness ==
    /\ socraticState.currentScaffoldLevel = 2
    /\ Len(socraticState.userAnswers) = 2
    /\ socraticState.conversationHistory =
          <<[role |-> "user", content |-> socraticState.userAnswers[1]],
            [role |-> "user", content |-> socraticState.userAnswers[2]]>>
    /\ \E p \in BagToSet(pending) : p.op = "respond" /\ p.confidence = 39

\* C37: under the HTTP routes currentPathStep is 0 in every state, also after
\* a fundamental misconception was logged; every recorded assertion is tagged
\* foundational; and no knowledge-gap map, stored or computed, has a mastered
\* step.
C37_StepStaysZero ==
    /\ socraticState.currentPathStep = 0
    /\ \A i \in 1..Len(socraticState.assertions) :
          socraticState.assertions[i].foundational = TRUE
    /\ \A idx \in 1..Len(GapMap(socraticState)) :
          GapMap(socraticState)[idx].status # "mastered"
    /\ \A k \in 1..Len(socraticState.knowledgeGapMap) :
          \A idx \in 1..Len(socraticState.knowledgeGapMap[k]) :
              socraticState.knowledgeGapMap[k][idx].status # "mastered"

\* a fundamental misconception was logged, assertions were recorded and the
\* gap map was requested
C37_Witness ==
    /\ \E i \in 1..Len(socraticState.misconceptions) :
          socraticState.misconceptions[i].type = "fundamental"
    /\ Len(socraticState.assertions) = 3
    /\ socraticState.knowledgeGapMap # <<>>
    /\ socraticState.knowledgeGapMap[1][1].status = "current"

C39_WarningFromTenth ==
    /\ \A p \in BagToSet(pending) :
          p.op = "respond" =>
              /\ p.loopWarning = (Len(socraticState.userAnswers) >= 10)
              /\ socraticState.userAnswers[Len(socraticState.userAnswers)] = p.answer
    /\ IsRespondReply(200) /\ pending = EmptyBag =>
          /\ lastResponse.loopWarning = (lastResponse.depth >= 10)
          /\ lastResponse.depth = Len(socraticState.userAnswers)
          /\ socraticState.currentQuestion = lastResponse.question
          /\ Len(AssistantEntries(socraticState)) = Len(socraticState.userAnswers)
          /\ Len(socraticState.userAnswers) < MaxLongAnswers =>
                ENABLED (\E a \in AnswerTexts : RespondAccepted(a, DefaultConfidence))

\* the answer after the first warned one was recorded, warned about and answered
C39_Witness ==
    /\ IsRespondReply(200)
    /\ pending = EmptyBag
    /\ lastResponse.depth = 11
    /\ lastResponse.loopWarning = TRUE
    /\ Len(socraticState.userAnswers) = 11
    /\ Len(socraticState.conversationHistory) = 22

\* C40: in every reachable state the thought-process graph is a linear chain
\* that mirrors userAnswers: one node per answer, the i-th with id node-i and
\* the i-th answer as its text, and one connection fewer than nodes (none
\* when there is no node), the i-th from node-i to node-(i+1).
C40_GraphIsChain ==
    LET n == Len(socraticState.userAnswers)
    IN  /\ Len(socraticState.nodes) = n
        /\ \A i \in 1..n :
              /\ socraticState.nodes[i].id = "node-" \o ToString(i)
              /\ socraticState.nodes[i].text = socraticState.userAnswers[i]
        /\ Len(socraticState.connections) = (IF n = 0 THEN 0 ELSE n - 1)
        /\ \A i \in 1..Len(socraticState.connections) :
              socraticState.connections[i] =
                  [from |-> "node-" \o ToString(i), to |-> "node-" \o ToString(i + 1)]

\* three answers were recorded: the chain has two links, the second from node-2
C40_Witness ==
    /\ Len(socraticState.userAnswers) = 3
    /\ Len(socraticState.nodes) = 3
    /\ Len(socraticState.connections) = 2
    /\ socraticState.connections[2] = [from |-> "node-2", to |-> "node-3"]

====
